---------------------------- MODULE Spec2Model ----------------------------
(***************************************************************************)
(* Verification model of tensorforce's line-search solver                  *)
(* (tensorforce/core/optimizers/solvers/line_search.py) together with the  *)
(* loop control of its Iterative base class, and of the constructor and   *)
(* the experience, update and pretrain operations of TensorforceAgent      *)
(* (tensorforce/agents/tensorforce.py).  The solver is explored by Spec    *)
(* and FairSpec, one experience call by AgentSpec, pretrain by             *)
(* PretrainSpec and the constructor by ConstructSpec; each leaves the      *)
(* variables of the other parts at their initial values.                   *)
(*                                                                         *)
(* Float scalars are modelled as exact rationals <<numerator,denominator>> *)
(* with a positive denominator, kept in lowest terms.  A structured value  *)
(* (TensorDict) is a tuple of such scalars, one per named tensor.          *)
(***************************************************************************)
EXTENDS Integers, Sequences, FiniteSets, TLC

(***************************************************************************)
(* Bounds of the model.                                                    *)
(***************************************************************************)
\* largest value of the max_iterations parameter that is explored
MaxIterations == 2
\* objective values returned by fn_x range over 0..MaxFnValue
MaxFnValue == 1
\* longest terminal array passed to one experience call
MaxLen == 6
\* largest capacity of the estimator
MaxExperienceSize == 4
\* largest buffer index a parallel slot reaches
MaxBufferIndex == 1
\* largest num_iterations and num_updates of a pretrain call
MaxPretrain == 2
\* largest update batch size and max_episode_timesteps of a constructor call
MaxBatchSize == 2

(***************************************************************************)
(* Exact rational arithmetic standing for the float operations.            *)
(***************************************************************************)
Abs(n) == IF n < 0 THEN -n ELSE n

RECURSIVE GCD(_, _)
GCD(a, b) == IF b = 0 THEN a ELSE GCD(b, a % b)

Sgn(n) == IF n < 0 THEN -1 ELSE IF n > 0 THEN 1 ELSE 0

\* lowest terms; a zero denominator stands for the float results of a
\* division by zero: <<1,0>> is +inf, <<-1,0>> is -inf and <<0,0>> is nan
Norm(n, d) ==
    IF d = 0
    THEN <<Sgn(n), 0>>
    ELSE LET s == IF d < 0 THEN -1 ELSE 1
             g == GCD(Abs(n), Abs(d))
         IN  <<(s * n) \div g, (s * d) \div g>>

Rat(n) == <<n, 1>>
\* the sum over the least common denominator, which keeps the integers small
RAdd(a, b) ==
    IF a[2] = 0 \/ b[2] = 0
    THEN Norm(a[1] * b[2] + b[1] * a[2], a[2] * b[2])
    ELSE LET g == GCD(a[2], b[2])
         IN  Norm(a[1] * (b[2] \div g) + b[1] * (a[2] \div g),
                  (a[2] \div g) * b[2])
RNeg(a) == <<-a[1], a[2]>>
RSub(a, b) == RAdd(a, RNeg(b))
RMul(a, b) == Norm(a[1] * b[1], a[2] * b[2])
RDiv(a, b) == Norm(a[1] * b[2], a[2] * b[1])
RLt(a, b) == a[1] * b[2] < b[1] * a[2]
RGt(a, b) == RLt(b, a)
RLe(a, b) == ~RLt(b, a)
RMax(a, b) == IF RLt(a, b) THEN b ELSE a

\* TensorDict.fmap over a structured value, one scalar per named tensor
VScale(v, c) == [i \in DOMAIN v |-> RMul(v[i], c)]
VNeg(v) == [i \in DOMAIN v |-> RNeg(v[i])]
\* TensorDict.fmap with zip_values
VAdd(v, w) == [i \in DOMAIN v |-> RAdd(v[i], w[i])]

\* util.epsilon
epsilon == <<1, 1000000>>

\* mutant: the estimate is used as the denominator without the epsilon floor
denominator_unfloored(estimate) == estimate

\* tf.math.maximum(x=estimate, y=epsilon), the denominator of both divisions
denominator(estimate) == RMax(estimate, epsilon)

(***************************************************************************)
(* Input domains.                                                          *)
(***************************************************************************)
Modes == {"linear", "exponential", "quadratic"}
XInits == {<<Rat(10)>>, <<Rat(0), Rat(2)>>}
BaseValues == {Rat(0), Rat(1)}
TargetValues == {Rat(0), Rat(4)}
EstimatedValues == {Rat(-1), Rat(0), epsilon, Rat(8)}
\* values a parameter module with min_value=0.0, max_value=1.0 can return
ParameterValues == {<<1, 2>>, Rat(1)}
AcceptRatioValues == {<<1, 2>>, Rat(1)}
FnValues == {Rat(n) : n \in 0 .. MaxFnValue}

VARIABLES
    pc,                 \* position of the caller / solver
    mode_arg,           \* the mode argument given to LineSearch.__init__
    mode,               \* LineSearch.mode
    unroll_loop,        \* Iterative.unroll_loop
    max_iterations,     \* Iterative.max_iterations
    error,              \* exception raised, "none" if none
    args,               \* the arguments of the running solve call
    st,                 \* the threaded solver state tuple
    iterations,         \* loop counter of Iterative.solve
    steps,              \* number of step invocations of this solve
    fnCalls,            \* deltas passed to fn_x, in call order
    fnBy,               \* which function made each fn_x call
    fnValues,           \* values fn_x returned to step, in call order
    paramSamples,       \* values returned by self.parameter.value()
    acceptSamples,      \* values returned by self.accept_ratio.value()
    divisors,           \* the denominators of the divisions carried out
    taken,              \* per loop-condition evaluation: state, outcome
    solution            \* value returned by solve

\* the state of a TensorforceAgent and the record of its experience call
VARIABLES
    experience_size,    \* self.experience_size, the capacity of the estimator
    buffer_indices,     \* self.buffer_indices, one index per parallel slot
    timesteps,          \* self.timesteps
    episodes,           \* self.episodes
    updates,            \* self.updates
    model_counters,     \* the counters the model keeps and returns
    experience_input,   \* the arguments of the experience call
    counters_before,    \* the agent's counters when the call was made
    passed,             \* the slices [last:index] passed to model.experience
    agent_error,        \* the error the experience call raised
    model_calls,        \* the calls of model.experience and model.update
    operations          \* the calls of experience and update made so far

\* the state of one pretrain call
VARIABLES
    pretrain_pc,        \* position of the pretrain call
    pretrain_args,      \* its arguments and the content of the directory
    iteration,          \* iterations of the outer loop completed
    updates_done        \* update calls made in the running iteration

\* the arguments and the outcome of one construction of an agent
VARIABLES
    construct_args,     \* arguments of TensorforceAgent.__init__
    buffer_observe,     \* config['buffer_observe'] after the checks, 0 if absent
    construct_error     \* the error __init__ raised

pretrainVars == <<pretrain_pc, pretrain_args, iteration, updates_done>>

constructVars == <<construct_args, buffer_observe, construct_error>>

\* the fields of the agent and the records of its calls
callVars == <<timesteps, episodes, updates, model_counters, experience_input,
              counters_before, passed, agent_error, model_calls, operations>>

agentVars == <<experience_size, buffer_indices, callVars, pretrainVars,
               constructVars>>

\* the variables of the line search solver
solverVars == <<pc, mode_arg, mode, unroll_loop, max_iterations, error, args,
                st, iterations, steps, fnCalls, fnBy, fnValues, paramSamples,
                acceptSamples, divisors, taken, solution>>

vars == <<solverVars, agentVars>>

\* the variables of one solve call
solveVars == <<args, st, iterations, steps, fnCalls, fnBy, fnValues,
               paramSamples, acceptSamples, divisors, taken, solution>>

\* the fields of the solver object
objectVars == <<mode_arg, mode, unroll_loop, max_iterations, error>>

NoState == [x |-> <<>>, deltas |-> <<>>, improvement |-> Rat(0),
            last_improvement |-> Rat(0), estimated |-> Rat(0),
            additional |-> [base_value |-> Rat(0)]]

NoArgs == [x_init |-> <<>>, base_value |-> Rat(0), target_value |-> Rat(0),
           estimated_improvement |-> Rat(0)]

(***************************************************************************)
(* The state transition functions of LineSearch.                           *)
(***************************************************************************)
\* mutant: the sentinel is dropped, last_improvement starts at improvement
start_without_sentinel(m, x_init, base_value, target_value, estimated_improvement, parameter) ==
    LET difference == RSub(target_value, base_value)
        improvement == RDiv(difference, denominator(estimated_improvement))
        deltas == [i \in DOMAIN x_init |-> RMul(RNeg(x_init[i]), parameter)]
        estimated_incr == RMul(RNeg(estimated_improvement), parameter)
    IN  [x |-> x_init,
         deltas |-> deltas,
         improvement |-> improvement,
         last_improvement |-> improvement,
         estimated |-> estimated_improvement,
         additional |-> IF m = "linear"
                        THEN [base_value |-> base_value,
                              estimated_incr |-> estimated_incr]
                        ELSE [base_value |-> base_value]]

\* mutant: the sentinel lies above the improvement instead of below it
start_sentinel_above(m, x_init, base_value, target_value, estimated_improvement, parameter) ==
    LET difference == RSub(target_value, base_value)
        improvement == RDiv(difference, denominator(estimated_improvement))
        deltas == [i \in DOMAIN x_init |-> RMul(RNeg(x_init[i]), parameter)]
        estimated_incr == RMul(RNeg(estimated_improvement), parameter)
    IN  [x |-> x_init,
         deltas |-> deltas,
         improvement |-> improvement,
         last_improvement |-> RAdd(improvement, Rat(1)),
         estimated |-> estimated_improvement,
         additional |-> IF m = "linear"
                        THEN [base_value |-> base_value,
                              estimated_incr |-> estimated_incr]
                        ELSE [base_value |-> base_value]]

\* LineSearch.start; parameter is the value self.parameter.value() returned
start(m, x_init, base_value, target_value, estimated_improvement, parameter) ==
    LET difference == RSub(target_value, base_value)
        improvement == RDiv(difference, denominator(estimated_improvement))
        last_improvement == RSub(improvement, Rat(1))
        deltas == [i \in DOMAIN x_init |-> RMul(RNeg(x_init[i]), parameter)]
        estimated_incr == RMul(RNeg(estimated_improvement), parameter)
    IN  [x |-> x_init,
         deltas |-> deltas,
         improvement |-> improvement,
         last_improvement |-> last_improvement,
         estimated |-> estimated_improvement,
         additional |-> IF m = "linear"
                        THEN [base_value |-> base_value,
                              estimated_incr |-> estimated_incr]
                        ELSE [base_value |-> base_value]]

\* mutant: the deltas are never decayed, as in linear mode
next_deltas_never_decay(m, s, parameter) == s.deltas

\* mutant: the deltas decay geometrically in linear mode too
next_deltas_always_decay(m, s, parameter) ==
    [i \in DOMAIN s.deltas |-> RMul(s.deltas[i], parameter)]

\* the deltas LineSearch.step passes to fn_x
next_deltas(m, s, parameter) ==
    IF m = "linear"
    THEN s.deltas
    ELSE [i \in DOMAIN s.deltas |-> RMul(s.deltas[i], parameter)]

\* mutant: the estimate is never reduced
next_estimated_constant(m, s, parameter) == s.estimated

\* mutant: the estimate decays geometrically in linear mode too
next_estimated_always_decay(m, s, parameter) == RMul(s.estimated, parameter)

\* the estimate LineSearch.step computes
next_estimated(m, s, parameter) ==
    IF m = "linear"
    THEN RAdd(s.estimated, s.additional.estimated_incr)
    ELSE RMul(s.estimated, parameter)

\* mutant: the previous improvement is not handed on as last_improvement
step_keeps_last_improvement(m, s, parameter, target_value) ==
    LET next_x == VAdd(s.x, s.deltas)
        base_value == s.additional.base_value
        difference == RSub(target_value, base_value)
        next_improvement ==
            RDiv(difference, denominator(next_estimated(m, s, parameter)))
    IN  [x |-> next_x,
         deltas |-> next_deltas(m, s, parameter),
         improvement |-> next_improvement,
         last_improvement |-> s.last_improvement,
         estimated |-> next_estimated(m, s, parameter),
         additional |-> s.additional]

\* LineSearch.step; parameter is the value sampled in this step and
\* target_value the value fn_x(next_deltas) returned
step(m, s, parameter, target_value) ==
    LET next_x == VAdd(s.x, s.deltas)
        base_value == s.additional.base_value
        difference == RSub(target_value, base_value)
        next_improvement ==
            RDiv(difference, denominator(next_estimated(m, s, parameter)))
    IN  [x |-> next_x,
         deltas |-> next_deltas(m, s, parameter),
         improvement |-> next_improvement,
         last_improvement |-> s.improvement,
         estimated |-> next_estimated(m, s, parameter),
         additional |-> s.additional]

\* mutant: the estimate is not tested
next_step_ignores_estimate(s, accept_ratio) ==
    /\ RGt(s.improvement, s.last_improvement)
    /\ RLt(s.improvement, accept_ratio)

\* mutant: an improvement equal to the accept ratio still continues
next_step_accepts_tie(s, accept_ratio) ==
    /\ RGt(s.improvement, s.last_improvement)
    /\ RLe(s.improvement, accept_ratio)
    /\ RGt(s.estimated, epsilon)

\* LineSearch.next_step; accept_ratio is self.accept_ratio.value()
next_step(s, accept_ratio) ==
    LET improved == RGt(s.improvement, s.last_improvement)
    IN  /\ improved
        /\ RLt(s.improvement, accept_ratio)
        /\ RGt(s.estimated, epsilon)

\* mutant: a tie with the last improvement is accepted
skip_undo_deltas_tie(s) == RLe(s.last_improvement, s.improvement)

\* LineSearch.end: the predicate choosing accept_deltas over undo_deltas
skip_undo_deltas(s) == RGt(s.improvement, s.last_improvement)

\* LineSearch.end.accept_deltas
accept_deltas(s) == VAdd(s.x, s.deltas)

\* mutant: the undo call passes the deltas without negating them
undo_argument_not_negated(s) == s.deltas

\* the argument of the fn_x call in LineSearch.end.undo_deltas
undo_argument(s) == VNeg(s.deltas)

\* LineSearch.end: the value returned
end_value(s) == IF skip_undo_deltas(s) THEN accept_deltas(s) ELSE s.x

(***************************************************************************)
(* Loop control of Iterative.solve.                                        *)
(***************************************************************************)
\* mutant: the bound admits one iteration too many
loop_bound_off_by_one(n, max) == n <= max

\* the hard bound on the number of iterations
loop_bound(n, max) == n < max

\* condition of the while loop (looped execution)
while_condition(n, max, s, accept_ratio) ==
    loop_bound(n, max) /\ next_step(s, accept_ratio)

\* mutant: an unrolled iteration steps without consulting next_step
unrolled_condition_always(s, accept_ratio) == TRUE

\* predicate of the conditional step of one unrolled iteration
unrolled_condition(s, accept_ratio) == next_step(s, accept_ratio)

(***************************************************************************)
(* Initial state: no solver object yet (and no agent in a behaviour of the *)
(* solver, no solver in a behaviour of the agent).                         *)
(***************************************************************************)
NoCall == [called |-> FALSE]

NoCounters == [timesteps |-> 0, episodes |-> 0, updates |-> 0]

NoError == [kind |-> "none", argument |-> "", name |-> 0]

NoPretrain ==
    /\ pretrain_pc = "idle"
    /\ pretrain_args = [called |-> FALSE]
    /\ iteration = 0
    /\ updates_done = 0

NoConstruct ==
    /\ construct_args = [called |-> FALSE]
    /\ buffer_observe = 0
    /\ construct_error = "none"

NoAgent ==
    /\ experience_size = 0
    /\ buffer_indices = <<>>
    /\ timesteps = 0
    /\ episodes = 0
    /\ updates = 0
    /\ model_counters = NoCounters
    /\ experience_input = NoCall
    /\ counters_before = NoCounters
    /\ passed = <<>>
    /\ agent_error = NoError
    /\ model_calls = <<>>
    /\ operations = <<>>
    /\ NoPretrain
    /\ NoConstruct

NoSolver ==
    /\ pc = "new"
    /\ mode_arg = "unset"
    /\ mode = "unset"
    /\ unroll_loop = FALSE
    /\ max_iterations = 0
    /\ error = "none"
    /\ args = NoArgs
    /\ st = NoState
    /\ iterations = 0
    /\ steps = 0
    /\ fnCalls = <<>>
    /\ fnBy = <<>>
    /\ fnValues = <<>>
    /\ paramSamples = <<>>
    /\ acceptSamples = <<>>
    /\ divisors = <<>>
    /\ taken = <<>>
    /\ solution = <<>>

Init == NoSolver /\ NoAgent

\* mutant: the mode check lets every mode through
mode_is_valid_any(m) == TRUE

\* the mode check of LineSearch.__init__
mode_is_valid(m) == m \in {"linear", "exponential"}

\* LineSearch.__init__
Construct ==
    /\ UNCHANGED agentVars
    /\ pc = "new"
    /\ \E m \in Modes, u \in BOOLEAN, n \in 0 .. MaxIterations :
        /\ mode_arg' = m
        /\ unroll_loop' = u
        /\ max_iterations' = n
        /\ IF mode_is_valid(m)
           THEN /\ mode' = m
                /\ pc' = "ready"
                /\ error' = "none"
           ELSE /\ mode' = mode
                /\ pc' = "failed"
                /\ error' = "TensorforceError"
    /\ UNCHANGED solveVars

\* LineSearch.solve -> Iterative.solve, up to and including self.start(...)
SolveStart ==
    /\ UNCHANGED agentVars
    /\ pc = "ready"
    /\ \E x_init \in XInits, base_value \in BaseValues,
          target_value \in TargetValues,
          estimated_improvement \in EstimatedValues,
          parameter \in ParameterValues :
        /\ args' = [x_init |-> x_init, base_value |-> base_value,
                    target_value |-> target_value,
                    estimated_improvement |-> estimated_improvement]
        /\ st' = start(mode, x_init, base_value, target_value,
                       estimated_improvement, parameter)
        /\ paramSamples' = <<parameter>>
        /\ divisors' = <<denominator(estimated_improvement)>>
    /\ pc' = "loop"
    /\ iterations' = 0
    /\ steps' = 0
    /\ fnCalls' = <<>>
    /\ fnBy' = <<>>
    /\ fnValues' = <<>>
    /\ acceptSamples' = <<>>
    /\ taken' = <<>>
    /\ solution' = <<>>
    /\ UNCHANGED objectVars

\* one invocation of self.step from the loop of Iterative.solve
DoStep(parameter, target_value) ==
    /\ st' = step(mode, st, parameter, target_value)
    /\ paramSamples' = Append(paramSamples, parameter)
    /\ fnCalls' = Append(fnCalls, next_deltas(mode, st, parameter))
    /\ fnBy' = Append(fnBy, "step")
    /\ fnValues' = Append(fnValues, target_value)
    /\ divisors' = Append(divisors,
                          denominator(next_estimated(mode, st, parameter)))
    /\ steps' = steps + 1

\* one evaluation of self.next_step, with its query of accept_ratio
Evaluate(accept_ratio, outcome) ==
    /\ acceptSamples' = Append(acceptSamples, accept_ratio)
    /\ taken' = Append(taken, [state |-> st, accept_ratio |-> accept_ratio,
                               iterations |-> iterations, step |-> outcome])

\* while loop: the condition holds and the body self.step runs
WhileStep ==
    /\ UNCHANGED agentVars
    /\ pc = "loop"
    /\ ~unroll_loop
    /\ \E accept_ratio \in AcceptRatioValues :
        /\ while_condition(iterations, max_iterations, st, accept_ratio)
        /\ Evaluate(accept_ratio, TRUE)
    /\ \E parameter \in ParameterValues, target_value \in FnValues :
        DoStep(parameter, target_value)
    /\ iterations' = iterations + 1
    /\ UNCHANGED <<pc, args, solution>>
    /\ UNCHANGED objectVars

\* while loop: the condition is false and the loop is left
WhileExit ==
    /\ UNCHANGED agentVars
    /\ pc = "loop"
    /\ ~unroll_loop
    /\ \E accept_ratio \in AcceptRatioValues :
        /\ ~while_condition(iterations, max_iterations, st, accept_ratio)
        /\ Evaluate(accept_ratio, FALSE)
    /\ pc' = "end"
    /\ UNCHANGED <<args, st, iterations, steps, fnCalls, fnBy, fnValues,
                   paramSamples, divisors, solution>>
    /\ UNCHANGED objectVars

\* unrolled loop: the conditional of an iteration takes the step branch
UnrolledStep ==
    /\ UNCHANGED agentVars
    /\ pc = "loop"
    /\ unroll_loop
    /\ loop_bound(iterations, max_iterations)
    /\ \E accept_ratio \in AcceptRatioValues :
        /\ unrolled_condition(st, accept_ratio)
        /\ Evaluate(accept_ratio, TRUE)
    /\ \E parameter \in ParameterValues, target_value \in FnValues :
        DoStep(parameter, target_value)
    /\ iterations' = iterations + 1
    /\ UNCHANGED <<pc, args, solution>>
    /\ UNCHANGED objectVars

\* unrolled loop: the conditional of an iteration takes the do-nothing branch
UnrolledSkip ==
    /\ UNCHANGED agentVars
    /\ pc = "loop"
    /\ unroll_loop
    /\ loop_bound(iterations, max_iterations)
    /\ \E accept_ratio \in AcceptRatioValues :
        /\ ~unrolled_condition(st, accept_ratio)
        /\ Evaluate(accept_ratio, FALSE)
    /\ iterations' = iterations + 1
    /\ UNCHANGED <<pc, args, st, steps, fnCalls, fnBy, fnValues, paramSamples,
                   divisors, solution>>
    /\ UNCHANGED objectVars

\* unrolled loop: all max_iterations conditional steps have been executed
UnrolledExit ==
    /\ UNCHANGED agentVars
    /\ pc = "loop"
    /\ unroll_loop
    /\ ~loop_bound(iterations, max_iterations)
    /\ pc' = "end"
    /\ UNCHANGED solveVars
    /\ UNCHANGED objectVars

\* LineSearch.end, accept_deltas branch
EndAccept ==
    /\ UNCHANGED agentVars
    /\ pc = "end"
    /\ skip_undo_deltas(st)
    /\ solution' = end_value(st)
    /\ pc' = "done"
    /\ UNCHANGED <<args, st, iterations, steps, fnCalls, fnBy, fnValues,
                   paramSamples, acceptSamples, divisors, taken>>
    /\ UNCHANGED objectVars

\* LineSearch.end, undo_deltas branch: fn_x(-deltas), value discarded
EndUndo ==
    /\ UNCHANGED agentVars
    /\ pc = "end"
    /\ ~skip_undo_deltas(st)
    /\ fnCalls' = Append(fnCalls, undo_argument(st))
    /\ fnBy' = Append(fnBy, "end")
    /\ solution' = end_value(st)
    /\ pc' = "done"
    /\ UNCHANGED <<args, st, iterations, steps, fnValues, paramSamples,
                   acceptSamples, divisors, taken>>
    /\ UNCHANGED objectVars

Next ==
    \/ Construct
    \/ SolveStart
    \/ WhileStep
    \/ WhileExit
    \/ UnrolledStep
    \/ UnrolledSkip
    \/ UnrolledExit
    \/ EndAccept
    \/ EndUndo

Spec == Init /\ [][Next]_vars

\* the steps of a running solve call
SolveSteps ==
    \/ WhileStep
    \/ WhileExit
    \/ UnrolledStep
    \/ UnrolledSkip
    \/ UnrolledExit
    \/ EndAccept
    \/ EndUndo

\* a solve call is one synchronous computation: once started it keeps
\* running; nothing obliges the caller to construct a solver or to call it
FairSpec == Spec /\ WF_vars(SolveSteps)

(***************************************************************************)
(* Helpers of the properties.                                              *)
(***************************************************************************)
InSolve == pc \in {"loop", "end", "done"}

\* the state LineSearch.start returned for the running solve call
StartState ==
    start(mode, args.x_init, args.base_value, args.target_value,
          args.estimated_improvement, paramSamples[1])

\* number of fn_x calls made from step
StepCalls == Cardinality({i \in DOMAIN fnBy : fnBy[i] = "step"})

\* number of fn_x calls made from end
EndCalls == Cardinality({i \in DOMAIN fnBy : fnBy[i] = "end"})

(***************************************************************************)
(* C1: one solve call invokes step at most max_iterations times; with      *)
(* max_iterations = 0 step is never invoked and the result is              *)
(* end(start(...)).                                                        *)
(***************************************************************************)
C1_StepBound ==
    InSolve =>
        /\ steps <= max_iterations
        /\ StepCalls = steps
        /\ (pc = "done" /\ max_iterations = 0) =>
              /\ steps = 0
              /\ StepCalls = 0
              /\ st = StartState
              /\ solution = end_value(StartState)

\* a solve that used up all of its max_iterations >= 1 steps has returned
C1_Witness ==
    /\ pc = "done"
    /\ max_iterations = MaxIterations
    /\ steps = max_iterations
    /\ steps >= 1

(***************************************************************************)
(* C2: with max_iterations = 0, solve returns exactly x_init, every        *)
(* component unchanged, in either mode and for any parameter value.        *)
(***************************************************************************)
C2_ZeroIterationsReturnsXInit ==
    (pc = "done" /\ max_iterations = 0) => solution = args.x_init

C4_EndAcceptIffImproved ==
    pc = "done" =>
        IF st.improvement[1] * st.last_improvement[2]
              > st.last_improvement[1] * st.improvement[2]
        THEN solution = VAdd(st.x, st.deltas) /\ solution # st.x
        ELSE solution = st.x /\ solution # VAdd(st.x, st.deltas)

\* a solve ended in a tie and returned x
C4_Witness ==
    /\ pc = "done"
    /\ steps >= 1
    /\ st.improvement = st.last_improvement
    /\ solution = st.x

(***************************************************************************)
(* C5: when iteration halts with improvement <= last_improvement, end      *)
(* calls fn_x exactly once, as the last fn_x call of the solve, with the   *)
(* exact negation of the delta the most recent step passed to fn_x; when   *)
(* it halts with improvement > last_improvement, end makes no fn_x call.   *)
(***************************************************************************)
C5_UndoCancelsLastStep ==
    pc = "done" =>
        IF RLe(st.improvement, st.last_improvement)
        THEN /\ EndCalls = 1
             /\ Len(fnCalls) >= 2
             /\ fnBy[Len(fnBy)] = "end"
             /\ fnBy[Len(fnBy) - 1] = "step"
             /\ \A i \in DOMAIN args.x_init :
                   RAdd(fnCalls[Len(fnCalls)][i],
                        fnCalls[Len(fnCalls) - 1][i]) = Rat(0)
        ELSE EndCalls = 0

\* an undo after two geometrically decayed steps
C5_Witness ==
    /\ pc = "done"
    /\ mode = "exponential"
    /\ steps = 2
    /\ EndCalls = 1
    /\ fnCalls[3] = VNeg(fnCalls[2])
    /\ fnCalls[2] # fnCalls[1]

(***************************************************************************)
(* C6: the solution returned by solve lies on the segment between the zero *)
(* point x' and x_0 = x_init: it equals c * x_init component-wise for a    *)
(* single scalar c with 0 <= c <= 1, in both modes.                        *)
(***************************************************************************)
\* v = c * w for one scalar c with 0 <= c <= 1 (w has a non-zero component)
OnSegment(v, w) ==
    \E i \in DOMAIN w :
        /\ w[i] # Rat(0)
        /\ LET c == RDiv(v[i], w[i])
           IN  /\ RLe(Rat(0), c)
               /\ RLe(c, Rat(1))
               /\ \A j \in DOMAIN w : v[j] = RMul(c, w[j])

C6_SolutionOnSegment ==
    pc = "done" => OnSegment(solution, args.x_init)

(***************************************************************************)
(* C7: within one solve call the parameter provider and the accept_ratio   *)
(* provider are each queried exactly once, at start, and never again per   *)
(* iteration; the decay of every step uses the value sampled in start.     *)
(***************************************************************************)
\* -x_init * p, the deltas start derives from a parameter value p
StartDeltas(p) == VScale(VNeg(args.x_init), p)

\* the deltas held by the solver state before its k-th step
DeltasBefore(k) == IF k = 1 THEN StartDeltas(paramSamples[1]) ELSE fnCalls[k - 1]

C7_ProvidersQueriedOnceAtStart ==
    InSolve =>
        /\ Len(paramSamples) = 1
        /\ Len(acceptSamples) = 1
        /\ \A k \in 1 .. steps :
              fnCalls[k] = IF mode = "linear"
                           THEN DeltasBefore(k)
                           ELSE VScale(DeltasBefore(k), paramSamples[1])

(***************************************************************************)
(* C7, amended: within one solve call the parameter provider is queried    *)
(* once in start and once more in every step, and the accept_ratio         *)
(* provider is not queried in start but once at every evaluation of        *)
(* next_step; in linear mode every step moves by the deltas and the        *)
(* estimate decrement computed from the value sampled in start, in         *)
(* exponential mode each step multiplies the deltas and the estimate by    *)
(* the value that step sampled itself.                                     *)
(***************************************************************************)
\* product of the values sampled by the first k steps
RECURSIVE StepSampleProduct(_)
StepSampleProduct(k) ==
    IF k = 0 THEN Rat(1) ELSE RMul(StepSampleProduct(k - 1), paramSamples[k + 1])

C7_ProviderQueries ==
    InSolve =>
        /\ Len(paramSamples) = 1 + steps
        /\ Len(acceptSamples) = Len(taken)
        /\ (pc = "loop" /\ iterations = 0) => acceptSamples = <<>>
        /\ \A k \in 1 .. steps :
              fnCalls[k] = IF mode = "linear"
                           THEN StartDeltas(paramSamples[1])
                           ELSE VScale(DeltasBefore(k), paramSamples[k + 1])
        /\ st.estimated =
              IF mode = "linear"
              THEN RSub(args.estimated_improvement,
                        RMul(Rat(steps), RMul(args.estimated_improvement,
                                              paramSamples[1])))
              ELSE RMul(args.estimated_improvement, StepSampleProduct(steps))

\* two exponential steps that sampled a value other than the one of start
C7_Witness ==
    /\ pc = "done"
    /\ mode = "exponential"
    /\ steps = 2
    /\ paramSamples[2] # paramSamples[1]
    /\ paramSamples[3] # paramSamples[2]
    /\ Len(acceptSamples) = 3

(***************************************************************************)
(* C8: for identical arguments, parameter values and fn_x, solve in        *)
(* unrolled mode and in looped mode return the same solution and make the  *)
(* same sequence of fn_x calls.                                            *)
(*                                                                         *)
(* The finished run is compared with a replay of the other execution mode  *)
(* on the same arguments: the replay's k-th fn_x call returns what the     *)
(* run's k-th call returned, its parameter queries return what the run's   *)
(* queries returned, and the accept_ratio provider returns one value       *)
(* throughout.                                                             *)
(***************************************************************************)
\* the accept_ratio provider returned the same value at every query
AcceptRatioConstant ==
    \A i, j \in DOMAIN acceptSamples : acceptSamples[i] = acceptSamples[j]

\* that value (no query was made only when max_iterations = 0)
TheAcceptRatio ==
    IF acceptSamples = <<>>
    THEN CHOOSE a \in AcceptRatioValues : TRUE
    ELSE acceptSamples[1]

\* outcome of a replay: it ran out of recorded values, or it delivers a state
Diverged == [ok |-> FALSE, state |-> NoState, calls |-> <<>>]

\* the step of a replay that has made Len(calls) fn_x calls so far
ReplayStep(s, calls) ==
    step(mode, s, paramSamples[Len(calls) + 2], fnValues[Len(calls) + 1])

ReplayCalls(s, calls) ==
    Append(calls, next_deltas(mode, s, paramSamples[Len(calls) + 2]))

\* looped execution: while next_step and iterations < max_iterations
RECURSIVE WhileRun(_, _, _)
WhileRun(s, n, calls) ==
    IF while_condition(n, max_iterations, s, TheAcceptRatio)
    THEN IF Len(calls) + 1 > Len(fnValues)
         THEN Diverged
         ELSE WhileRun(ReplayStep(s, calls), n + 1, ReplayCalls(s, calls))
    ELSE [ok |-> TRUE, state |-> s, calls |-> calls]

\* unrolled execution: max_iterations conditional steps
RECURSIVE UnrolledRun(_, _, _)
UnrolledRun(s, n, calls) ==
    IF loop_bound(n, max_iterations)
    THEN IF unrolled_condition(s, TheAcceptRatio)
         THEN IF Len(calls) + 1 > Len(fnValues)
              THEN Diverged
              ELSE UnrolledRun(ReplayStep(s, calls), n + 1,
                               ReplayCalls(s, calls))
         ELSE UnrolledRun(s, n + 1, calls)
    ELSE [ok |-> TRUE, state |-> s, calls |-> calls]

\* the replay of the execution mode the finished run did not use
OtherMode ==
    IF unroll_loop
    THEN WhileRun(StartState, 0, <<>>)
    ELSE UnrolledRun(StartState, 0, <<>>)

\* all fn_x calls of a replay, the one of end included
AllCalls(r) ==
    IF skip_undo_deltas(r.state)
    THEN r.calls
    ELSE Append(r.calls, undo_argument(r.state))

C8_UnrolledEqualsLooped ==
    (pc = "done" /\ AcceptRatioConstant) =>
        /\ OtherMode.ok
        /\ end_value(OtherMode.state) = solution
        /\ AllCalls(OtherMode) = fnCalls

\* an unrolled run that stepped, then skipped an iteration, then undid
C8_Witness ==
    /\ pc = "done"
    /\ AcceptRatioConstant
    /\ unroll_loop
    /\ max_iterations = MaxIterations
    /\ steps >= 1
    /\ steps < max_iterations
    /\ EndCalls = 1

(***************************************************************************)
(* C9: solve always terminates and returns a point, the final x or the     *)
(* final x + deltas, and never ends in an error: neither exhausting        *)
(* max_iterations without reaching accept_ratio nor a zero or negative     *)
(* estimated_improvement raises, every division having the denominator     *)
(* max(estimate, epsilon) > 0.                                             *)
(***************************************************************************)
C9_NoError ==
    InSolve =>
        /\ error = "none"
        /\ \A i \in DOMAIN divisors : divisors[i][1] > 0 /\ divisors[i][2] > 0
        /\ st.improvement[2] > 0
        /\ pc = "done" => solution \in {st.x, VAdd(st.x, st.deltas)}

C9_TerminatesWithoutError ==
    /\ []C9_NoError
    /\ (pc = "loop") ~> (pc = "done")

\* max_iterations were used up without reaching the accept ratio, the last
\* division having been floored by epsilon
C9_Witness ==
    /\ pc = "done"
    /\ steps = max_iterations
    /\ steps >= 2
    /\ divisors[Len(divisors)] = epsilon
    /\ \A a \in AcceptRatioValues : RLt(st.improvement, a)
    /\ solution = st.x

(***************************************************************************)
(* C10: constructing a LineSearch with a mode other than 'linear' or       *)
(* 'exponential' fails with a TensorforceError and yields no usable        *)
(* solver; construction with 'linear' or 'exponential' does not raise.     *)
(***************************************************************************)
C10_InvalidModeFails ==
    pc # "new" =>
        IF mode_arg = "linear" \/ mode_arg = "exponential"
        THEN /\ error = "none"
             /\ pc # "failed"
             /\ mode = mode_arg
        ELSE /\ error = "TensorforceError"
             /\ pc = "failed"
             /\ mode = "unset"
             /\ st = NoState
             /\ solution = <<>>

\* a construction with another mode has failed
C10_Witness ==
    /\ pc = "failed"
    /\ mode_arg = "quadratic"
    /\ error = "TensorforceError"

(***************************************************************************)
(* Helpers: the solver states of one solve call in the order they arose.   *)
(***************************************************************************)
\* the solver state that followed the i-th evaluation of the loop condition
StateAfter(i) == IF i < Len(taken) THEN taken[i + 1].state ELSE st

\* number of steps taken up to and including the i-th evaluation
StepsUpTo(i) == Cardinality({j \in 1 .. i : taken[j].step})

\* the solve call has just run start and nothing else
JustStarted == pc = "loop" /\ iterations = 0 /\ taken = <<>>

(***************************************************************************)
(* C11: start returns x = x_init, deltas = -x_init * parameter,            *)
(* improvement = (target_value - base_value) / max(estimated_improvement,  *)
(* epsilon), last_improvement = improvement - 1, estimated =               *)
(* estimated_improvement and, in linear mode, additional = {base_value,    *)
(* estimated_incr = -estimated_improvement * parameter}; x_init = {a: 10}, *)
(* base 0, target 4, estimate 8, parameter 0.5 give improvement 0.5 and    *)
(* deltas {a: -5}.                                                         *)
(***************************************************************************)
C11_StartState ==
    JustStarted =>
        LET p == paramSamples[1]
            floor == IF args.estimated_improvement[1] * epsilon[2]
                          > epsilon[1] * args.estimated_improvement[2]
                     THEN args.estimated_improvement
                     ELSE epsilon
        IN  /\ st.x = args.x_init
            /\ DOMAIN st.deltas = DOMAIN args.x_init
            /\ \A i \in DOMAIN args.x_init :
                  st.deltas[i] = RNeg(RMul(args.x_init[i], p))
            /\ RMul(st.improvement, floor)
                  = RSub(args.target_value, args.base_value)
            /\ RAdd(st.last_improvement, Rat(1)) = st.improvement
            /\ st.estimated = args.estimated_improvement
            /\ st.additional.base_value = args.base_value
            /\ mode = "linear" =>
                  /\ DOMAIN st.additional = {"base_value", "estimated_incr"}
                  /\ st.additional.estimated_incr
                        = RNeg(RMul(args.estimated_improvement, p))
            /\ mode = "exponential" => DOMAIN st.additional = {"base_value"}
            /\ (/\ args.x_init = <<Rat(10)>>
                /\ args.base_value = Rat(0)
                /\ args.target_value = Rat(4)
                /\ args.estimated_improvement = Rat(8)
                /\ p = <<1, 2>>)
               => (st.improvement = <<1, 2>> /\ st.deltas = <<Rat(-5)>>)

\* start has run on the example of the specification
C11_Witness ==
    /\ JustStarted
    /\ mode = "linear"
    /\ args = [x_init |-> <<Rat(10)>>, base_value |-> Rat(0),
               target_value |-> Rat(4), estimated_improvement |-> Rat(8)]
    /\ paramSamples = << <<1, 2>> >>
    /\ st.improvement = <<1, 2>>
    /\ st.deltas = <<Rat(-5)>>

(***************************************************************************)
(* C12: in linear mode the deltas of the solver state are the same in      *)
(* every state of one solve call, -x_init * parameter, every fn_x call     *)
(* made by step receives exactly that delta, and estimated decreases by    *)
(* estimated_improvement * parameter at each step (parameter being the     *)
(* value sampled in start).                                                *)
(***************************************************************************)
C12_LinearConstantDeltas ==
    (InSolve /\ mode = "linear") =>
        LET d == VScale(VNeg(args.x_init), paramSamples[1])
            decrement == RMul(args.estimated_improvement, paramSamples[1])
        IN  /\ st.deltas = d
            /\ \A i \in DOMAIN taken : taken[i].state.deltas = d
            /\ \A k \in DOMAIN fnCalls : fnBy[k] = "step" => fnCalls[k] = d
            /\ \A i \in DOMAIN taken :
                  IF taken[i].step
                  THEN RAdd(StateAfter(i).estimated, decrement)
                          = taken[i].state.estimated
                  ELSE StateAfter(i).estimated = taken[i].state.estimated

\* two linear steps have been taken with a non-zero decrement
C12_Witness ==
    /\ pc = "done"
    /\ mode = "linear"
    /\ steps = 2
    /\ paramSamples[2] # paramSamples[1]
    /\ fnCalls[1] = fnCalls[2]
    /\ st.estimated # args.estimated_improvement

(***************************************************************************)
(* C13: in exponential mode with parameter p each step maps deltas to      *)
(* deltas * p and estimated to estimated * p, so that for 0 < p < 1 the    *)
(* magnitude of every non-zero deltas component strictly decreases at      *)
(* each step (p being the value the step sampled).                         *)
(***************************************************************************)
C13_ExponentialDecay ==
    (InSolve /\ mode = "exponential") =>
        \A i \in DOMAIN taken :
            taken[i].step =>
                LET before == taken[i].state
                    after == StateAfter(i)
                    p == paramSamples[StepsUpTo(i) + 1]
                IN  /\ after.deltas = VScale(before.deltas, p)
                    /\ fnCalls[StepsUpTo(i)] = VScale(before.deltas, p)
                    /\ after.estimated = RMul(before.estimated, p)
                    /\ (RLt(Rat(0), p) /\ RLt(p, Rat(1))) =>
                          \A c \in DOMAIN before.deltas :
                              before.deltas[c] # Rat(0) =>
                                  Abs(after.deltas[c][1]) * before.deltas[c][2]
                                    < Abs(before.deltas[c][1]) * after.deltas[c][2]

\* two exponential steps with different sampled values have been taken
C13_Witness ==
    /\ pc = "done"
    /\ mode = "exponential"
    /\ steps = 2
    /\ paramSamples[2] # paramSamples[3]
    /\ \E c \in DOMAIN args.x_init : args.x_init[c] # Rat(0)

RECURSIVE ExternalPoint(_)
ExternalPoint(k) ==
    IF k = 0 THEN args.x_init ELSE VAdd(ExternalPoint(k - 1), fnCalls[k])

C23_ImprovementMeasuredAtX ==
    (InSolve /\ steps >= 1) => st.x = ExternalPoint(steps)

(***************************************************************************)
(* C24: each step makes the previous improvement the new last_improvement  *)
(* and the previous x + previous deltas the new x, and leaves additional   *)
(* (base_value, and estimated_incr in linear mode) unchanged; the          *)
(* base_value of every improvement ratio of one solve is the base_value    *)
(* passed to solve.                                                        *)
(***************************************************************************)
C24_StepThreadsState ==
    InSolve =>
        /\ st.additional.base_value = args.base_value
        /\ \A i \in DOMAIN taken :
              LET before == taken[i].state
                  after == StateAfter(i)
                  floor == IF after.estimated[1] * epsilon[2]
                                > epsilon[1] * after.estimated[2]
                           THEN after.estimated
                           ELSE epsilon
              IN  IF taken[i].step
                  THEN /\ after.last_improvement = before.improvement
                       /\ DOMAIN after.x = DOMAIN before.x
                       /\ \A c \in DOMAIN before.x :
                             after.x[c] = RAdd(before.x[c], before.deltas[c])
                       /\ after.additional = before.additional
                       /\ RMul(after.improvement, floor)
                             = RSub(fnValues[StepsUpTo(i)], args.base_value)
                  ELSE after = before

\* two steps were taken with a non-zero base_value and changing improvements
C24_Witness ==
    /\ pc = "done"
    /\ steps = 2
    /\ args.base_value # Rat(0)
    /\ st.last_improvement # taken[1].state.improvement
    /\ st.last_improvement # st.improvement
    /\ st.x # args.x_init

C28_LinearStepBound ==
    (/\ InSolve
     /\ mode = "linear"
     /\ paramSamples[1][1] > 0
     /\ args.estimated_improvement[1] > 0)
    => LET p == paramSamples[1]
           remaining(k) == RSub(Rat(1), RMul(Rat(k), p))
       IN  /\ steps <= (p[2] + p[1] - 1) \div p[1]
           /\ st.estimated = RMul(args.estimated_improvement, remaining(steps))
           /\ \A i \in DOMAIN taken :
                 taken[i].state.estimated
                    = RMul(args.estimated_improvement,
                           remaining(StepsUpTo(i - 1)))

\* with p = 1 the second step was refused by the estimate alone
C28_Witness ==
    /\ pc = "done"
    /\ mode = "linear"
    /\ paramSamples[1] = Rat(1)
    /\ max_iterations = 2
    /\ steps = 1
    /\ Len(taken) >= 2
    /\ taken[2].iterations < max_iterations
    /\ RGt(taken[2].state.improvement, taken[2].state.last_improvement)
    /\ RLt(taken[2].state.improvement, taken[2].accept_ratio)
    /\ taken[2].state.estimated = Rat(0)

(***************************************************************************)
(* TensorforceAgent.experience.  The arrays are given in the batched       *)
(* dict-of-arrays form; of internals, actions and reward only the leading  *)
(* lengths matter to the code modelled here, terminal is an array of       *)
(* booleans.  Indices and slices are Python's: timestep i of an array t is *)
(* t[i + 1] here, and the slice [last:index] holds timesteps last to       *)
(* index - 1.                                                              *)
(***************************************************************************)
Slots == {1, 2}

TerminalInputs == UNION {[1 .. k -> BOOLEAN] : k \in 1 .. MaxLen}

\* the conversion of a boolean terminal array to integers
to_int(terminal) == [i \in DOMAIN terminal |-> IF terminal[i] THEN 1 ELSE 0]

\* mutant: only the first parallel slot is looked at
buffers_empty_first_slot(indices) == indices[1] = 0

\* the test on self.buffer_indices that opens experience
buffers_empty(indices) == \A p \in DOMAIN indices : indices[p] = 0

\* first entry of lens, at or after position i, whose length is not n; 0 if none
RECURSIVE first_mismatch(_, _, _)
first_mismatch(lens, n, i) ==
    IF i > Len(lens) THEN 0
    ELSE IF lens[i] # n THEN i
    ELSE first_mismatch(lens, n, i + 1)

\* mutant: the length of reward is not checked
check_lengths_without_reward(num_instances, internals, actions, terminal_len, reward_len) ==
    IF first_mismatch(internals, num_instances, 1) # 0
    THEN [kind |-> "value", argument |-> "len(internals[name])",
          name |-> first_mismatch(internals, num_instances, 1)]
    ELSE IF first_mismatch(actions, num_instances, 1) # 0
    THEN [kind |-> "value", argument |-> "len(actions[name])",
          name |-> first_mismatch(actions, num_instances, 1)]
    ELSE IF terminal_len # num_instances
    THEN [kind |-> "value", argument |-> "len(terminal)", name |-> 0]
    ELSE NoError

\* the checks on the number of inputs, in the order of the code
check_lengths(num_instances, internals, actions, terminal_len, reward_len) ==
    IF first_mismatch(internals, num_instances, 1) # 0
    THEN [kind |-> "value", argument |-> "len(internals[name])",
          name |-> first_mismatch(internals, num_instances, 1)]
    ELSE IF first_mismatch(actions, num_instances, 1) # 0
    THEN [kind |-> "value", argument |-> "len(actions[name])",
          name |-> first_mismatch(actions, num_instances, 1)]
    ELSE IF terminal_len # num_instances
    THEN [kind |-> "value", argument |-> "len(terminal)", name |-> 0]
    ELSE IF reward_len # num_instances
    THEN [kind |-> "value", argument |-> "len(reward)", name |-> 0]
    ELSE NoError

\* mutant: the open batch is closed one timestep after it reached the capacity
continue_scan_past_capacity(terminal, index, last, size) ==
    terminal[index] = 0 /\ index - last <= size

\* mutant: a terminal does not close the open batch
continue_scan_over_terminal(terminal, index, last, size) ==
    index - last < size

\* the test that lets the scan move on without closing the open batch
continue_scan(terminal, index, last, size) ==
    terminal[index] = 0 /\ index - last < size

\* mutant: a following terminal is taken into the batch whenever there is one
include_terminal_whenever(terminal, index, last, size) ==
    index < Len(terminal) /\ terminal[index + 1] > 0

\* the test of the branch "Include terminal in batch if possible"
include_terminal(terminal, index, last, size) ==
    /\ index < Len(terminal)
    /\ terminal[index] = 0
    /\ terminal[index + 1] > 0
    /\ index - last < size

\* mutant: the open batch is closed one timestep before it reaches the
\* capacity and the following terminal is not taken into it
RECURSIVE batches_below_capacity(_, _, _, _, _)
batches_below_capacity(terminal, size, index, last, acc) ==
    IF index > Len(terminal) THEN acc
    ELSE IF terminal[index] = 0 /\ index - last < size - 1
    THEN batches_below_capacity(terminal, size, index + 1, last, acc)
    ELSE batches_below_capacity(terminal, size, index + 1, index,
                                Append(acc, [last |-> last, index |-> index]))

\* the loop over range(1, len(terminal) + 1): the slices passed to the model
RECURSIVE batches(_, _, _, _, _)
batches(terminal, size, index, last, acc) ==
    IF index > Len(terminal) THEN acc
    ELSE IF continue_scan(terminal, index, last, size)
    THEN batches(terminal, size, index + 1, last, acc)
    ELSE LET end == IF include_terminal(terminal, index, last, size)
                    THEN index + 1
                    ELSE index
         IN  batches(terminal, size, index + 1, end,
                     Append(acc, [last |-> last, index |-> end]))

\* the timesteps of terminal in the slice b
slice(terminal, b) ==
    [i \in 1 .. (IF b.index > Len(terminal) THEN Len(terminal) ELSE b.index)
                    - b.last |-> terminal[b.last + i]]

\* model.experience: the model counts what it is given and returns its counters
model_experience(counters, terminal_batch) ==
    [timesteps |-> counters.timesteps + Len(terminal_batch),
     episodes |-> counters.episodes
                    + Cardinality({i \in DOMAIN terminal_batch :
                                      terminal_batch[i] > 0}),
     updates |-> counters.updates]

\* the counters the model returns for the k-th slice passed to it
RECURSIVE returned(_, _, _, _)
returned(counters, terminal, slices, k) ==
    IF k = 0 THEN counters
    ELSE model_experience(returned(counters, terminal, slices, k - 1),
                          slice(terminal, slices[k]))

\* an agent after construction
AgentInit ==
    /\ NoSolver
    /\ experience_size \in 1 .. MaxExperienceSize
    /\ buffer_indices = [p \in Slots |-> 0]
    /\ timesteps = 0
    /\ episodes = 0
    /\ updates = 0
    /\ model_counters = NoCounters
    /\ experience_input = NoCall
    /\ counters_before = NoCounters
    /\ passed = <<>>
    /\ agent_error = NoError
    /\ model_calls = <<>>
    /\ operations = <<>>
    /\ NoPretrain
    /\ NoConstruct

\* Agent.act buffers one timestep of slot p
Act(p) ==
    /\ experience_input = NoCall
    /\ pretrain_pc = "idle"
    /\ buffer_indices[p] < MaxBufferIndex
    /\ buffer_indices' = [buffer_indices EXCEPT ![p] = @ + 1]
    /\ UNCHANGED <<experience_size, callVars, pretrainVars, constructVars>>
    /\ UNCHANGED solverVars

\* Agent.observe hands the buffered timesteps of slot p to the model
Observe(p) ==
    /\ experience_input = NoCall
    /\ pretrain_pc = "idle"
    /\ buffer_indices[p] > 0
    /\ buffer_indices' = [buffer_indices EXCEPT ![p] = 0]
    /\ UNCHANGED <<experience_size, callVars, pretrainVars, constructVars>>
    /\ UNCHANGED solverVars

\* mutant: the counters of the first model.experience call are kept
stored_counters_first(before, returns) ==
    IF returns = <<>> THEN before ELSE returns[1]

\* self.timesteps, self.episodes, self.updates after the batching loop, every
\* pass of which overwrites them with the triple model.experience returned
stored_counters(before, returns) ==
    IF returns = <<>> THEN before ELSE returns[Len(returns)]

\* the body of TensorforceAgent.experience for the given arguments
ExperienceCall(terminal, num_instances, internals, actions, reward_len) ==
    LET mismatch == check_lengths(num_instances, internals, actions,
                                  Len(terminal), reward_len)
        slices == batches(to_int(terminal), experience_size, 1, 0, <<>>)
        returns == [k \in 1 .. Len(slices) |->
                       returned(model_counters, to_int(terminal), slices, k)]
        before == [timesteps |-> timesteps, episodes |-> episodes,
                   updates |-> updates]
        stored == stored_counters(before, returns)
    IN  /\ experience_input' =
               [called |-> TRUE, terminal |-> terminal,
                num_instances |-> num_instances,
                internals |-> internals, actions |-> actions,
                reward_len |-> reward_len]
        /\ counters_before' = before
        /\ operations' = Append(operations, "experience")
        /\ IF ~buffers_empty(buffer_indices)
           THEN /\ agent_error' = [kind |-> "TensorforceError",
                                   argument |-> "mid-episode",
                                   name |-> 0]
                /\ UNCHANGED <<passed, model_counters, model_calls,
                               timesteps, episodes, updates>>
           ELSE IF mismatch # NoError
           THEN /\ agent_error' = mismatch
                /\ UNCHANGED <<passed, model_counters, model_calls,
                               timesteps, episodes, updates>>
           ELSE /\ agent_error' = NoError
                /\ passed' = slices
                /\ model_counters' = returned(model_counters, to_int(terminal),
                                              slices, Len(slices))
                /\ model_calls' =
                       model_calls \o
                       [k \in 1 .. Len(slices) |->
                           [call |-> "experience",
                            operation |-> Len(operations) + 1,
                            returned |-> returns[k]]]
                /\ timesteps' = stored.timesteps
                /\ episodes' = stored.episodes
                /\ updates' = stored.updates

\* TensorforceAgent.experience, one call
Experience ==
    /\ experience_input = NoCall
    /\ \E terminal \in TerminalInputs, extra \in {0, 1} :
          LET num_instances == Len(terminal) + extra IN
          \E internals \in {<<>>, <<num_instances>>, <<num_instances + 1>>},
             actions \in {<<num_instances>>,
                          <<num_instances, num_instances + 1>>},
             reward_len \in {num_instances, num_instances + 1} :
             ExperienceCall(terminal, num_instances, internals, actions,
                            reward_len)
    /\ UNCHANGED <<experience_size, buffer_indices, pretrainVars,
                   constructVars>>
    /\ UNCHANGED solverVars

AgentNext ==
    \/ \E p \in Slots : Act(p)
    \/ \E p \in Slots : Observe(p)
    \/ Experience

AgentSpec == AgentInit /\ [][AgentNext]_vars

(***************************************************************************)
(* TensorforceAgent.update and TensorforceAgent.pretrain.  The directory   *)
(* of a pretrain call is missing, holds no trace file, or holds the trace  *)
(* files TraceFiles, of which only the terminal arrays are modelled.       *)
(***************************************************************************)
TraceFiles == <<<<FALSE, TRUE>>, <<FALSE, FALSE, FALSE>>>>

\* model.update: the model performs an update and returns its counters
model_update(counters) ==
    [timesteps |-> counters.timesteps,
     episodes |-> counters.episodes,
     updates |-> counters.updates + 1]

\* the body of TensorforceAgent.update
UpdateCall ==
    LET triple == model_update(model_counters) IN
    /\ counters_before' = [timesteps |-> timesteps, episodes |-> episodes,
                           updates |-> updates]
    /\ operations' = Append(operations, "update")
    /\ model_counters' = triple
    /\ model_calls' = Append(model_calls,
                             [call |-> "update",
                              operation |-> Len(operations) + 1,
                              returned |-> triple])
    /\ timesteps' = triple.timesteps
    /\ episodes' = triple.episodes
    /\ updates' = triple.updates
    /\ UNCHANGED <<experience_input, passed, agent_error>>

\* indices[:num_traces] after shuffle(indices): the files of one iteration
Selections(num_traces) ==
    LET k == IF num_traces < Len(TraceFiles) THEN num_traces
             ELSE Len(TraceFiles)
    IN  {sel \in [1 .. k -> DOMAIN TraceFiles] :
            \A a, b \in 1 .. k : a # b => sel[a] # sel[b]}

\* np.concatenate over the traces of the selection, first i of them
RECURSIVE concatenate(_, _)
concatenate(sel, i) ==
    IF i = 0 THEN <<>> ELSE concatenate(sel, i - 1) \o TraceFiles[sel[i]]

\* mutant: the inner loop makes one update too many
more_updates_off_by_one(done, num_updates) == done <= num_updates

\* for _ in range(num_updates): another update call follows
more_updates(done, num_updates) == done < num_updates

\* for _ in range(num_iterations): another iteration follows
more_iterations(done, num_iterations) == done < num_iterations

\* pretrain up to the start of its first iteration
Pretrain ==
    /\ pretrain_pc = "idle"
    /\ experience_input = NoCall
    /\ \E directory \in {"missing", "empty", "traces"},
          num_iterations \in 1 .. MaxPretrain,
          num_updates \in 1 .. MaxPretrain,
          num_traces \in DOMAIN TraceFiles :
          /\ pretrain_args' = [called |-> TRUE, directory |-> directory,
                               num_iterations |-> num_iterations,
                               num_updates |-> num_updates,
                               num_traces |-> num_traces]
          /\ IF directory = "missing"
             THEN /\ pretrain_pc' = "failed"
                  /\ agent_error' = [kind |-> "value",
                                     argument |-> "directory", name |-> 0]
             ELSE /\ pretrain_pc' = IF more_iterations(0, num_iterations)
                                    THEN "iterating" ELSE "done"
                  /\ UNCHANGED agent_error
    /\ iteration' = 0
    /\ updates_done' = 0
    /\ UNCHANGED <<timesteps, episodes, updates, model_counters,
                   experience_input, counters_before, passed, model_calls,
                   operations>>
    /\ UNCHANGED <<experience_size, buffer_indices, constructVars>>
    /\ UNCHANGED solverVars

\* one iteration of pretrain up to and including self.experience(**batch);
\* num_updates is positive, so an update call follows
PretrainExperience ==
    /\ pretrain_pc = "iterating"
    /\ IF pretrain_args.directory = "empty"
       THEN /\ pretrain_pc' = "failed"
            /\ agent_error' = [kind |-> "AttributeError",
                               argument |-> "batch", name |-> 0]
            /\ UNCHANGED <<timesteps, episodes, updates, model_counters,
                           experience_input, counters_before, passed,
                           model_calls, operations>>
       ELSE /\ \E sel \in Selections(pretrain_args.num_traces) :
                  LET terminal == concatenate(sel, Len(sel)) IN
                  ExperienceCall(terminal, Len(terminal), <<>>,
                                 <<Len(terminal)>>, Len(terminal))
            /\ pretrain_pc' = IF buffers_empty(buffer_indices)
                              THEN "updating" ELSE "failed"
    /\ updates_done' = 0
    /\ UNCHANGED <<pretrain_args, iteration>>
    /\ UNCHANGED <<experience_size, buffer_indices, constructVars>>
    /\ UNCHANGED solverVars

\* one self.update() of the inner loop of pretrain
PretrainUpdate ==
    /\ pretrain_pc = "updating"
    /\ UpdateCall
    /\ updates_done' = updates_done + 1
    /\ IF more_updates(updates_done + 1, pretrain_args.num_updates)
       THEN UNCHANGED <<pretrain_pc, iteration>>
       ELSE /\ iteration' = iteration + 1
            /\ pretrain_pc' = IF more_iterations(iteration + 1,
                                                 pretrain_args.num_iterations)
                              THEN "iterating" ELSE "done"
    /\ UNCHANGED pretrain_args
    /\ UNCHANGED <<experience_size, buffer_indices, constructVars>>
    /\ UNCHANGED solverVars

PretrainNext ==
    \/ \E p \in Slots : Act(p)
    \/ \E p \in Slots : Observe(p)
    \/ Pretrain
    \/ PretrainExperience
    \/ PretrainUpdate

PretrainSpec == AgentInit /\ [][PretrainNext]_vars

(***************************************************************************)
(* TensorforceAgent.__init__: the rules for config['buffer_observe'].      *)
(* The integer arguments are positive; 0 stands for an absent              *)
(* config['buffer_observe'], for max_episode_timesteps = None, for an      *)
(* update batch size that is no int (a parameter specification) and for    *)
(* the reward horizon 'episode'.                                           *)
(***************************************************************************)
UpdateArguments ==
    {[form |-> "int", unit |-> "none", batch_size |-> b] :
        b \in 1 .. MaxBatchSize}
    \cup {[form |-> "dict", unit |-> u, batch_size |-> b] :
             u \in {"timesteps", "episodes"}, b \in 0 .. MaxBatchSize}

\* if isinstance(update, int): update = dict(unit='timesteps', batch_size=update)
update_spec(update) ==
    IF update.form = "int"
    THEN [unit |-> "timesteps", batch_size |-> update.batch_size]
    ELSE [unit |-> update.unit, batch_size |-> update.batch_size]

\* the branch parallel_interactions > 1
parallel_rule(configured, max_episode_timesteps) ==
    IF configured = 0
    THEN IF max_episode_timesteps = 0
         THEN [buffer_observe |-> 0, error |-> "required"]
         ELSE [buffer_observe |-> max_episode_timesteps, error |-> "none"]
    ELSE IF max_episode_timesteps = 0
         THEN [buffer_observe |-> configured, error |-> "TypeError"]
         ELSE IF configured < max_episode_timesteps
              THEN [buffer_observe |-> configured, error |-> "value"]
              ELSE [buffer_observe |-> configured, error |-> "none"]

\* mutant: a configured buffer_observe is taken as it is
timesteps_rule_unchecked(configured, batch_size) ==
    IF configured = 0
    THEN [buffer_observe |-> IF batch_size # 0 THEN batch_size ELSE 1,
          error |-> "none"]
    ELSE [buffer_observe |-> configured, error |-> "none"]

\* the branch update['unit'] == 'timesteps'
timesteps_rule(configured, batch_size) ==
    IF configured = 0
    THEN [buffer_observe |-> IF batch_size # 0 THEN batch_size ELSE 1,
          error |-> "none"]
    ELSE IF batch_size = 0
         THEN [buffer_observe |-> configured, error |-> "TypeError"]
         ELSE IF configured > batch_size
              THEN [buffer_observe |-> configured, error |-> "value"]
              ELSE [buffer_observe |-> configured, error |-> "none"]

\* the branch update['unit'] == 'episodes'
episodes_rule(configured, max_episode_timesteps) ==
    IF configured = 0
    THEN [buffer_observe |-> IF max_episode_timesteps = 0 THEN 1000
                             ELSE max_episode_timesteps,
          error |-> "none"]
    ELSE [buffer_observe |-> configured, error |-> "none"]

buffer_observe_rule(parallel_interactions, update, configured, max_episode_timesteps) ==
    IF parallel_interactions > 1
    THEN parallel_rule(configured, max_episode_timesteps)
    ELSE IF update.unit = "timesteps"
         THEN timesteps_rule(configured, update.batch_size)
         ELSE episodes_rule(configured, max_episode_timesteps)

\* reward_estimation['horizon'] == 'episode' requires max_episode_timesteps
horizon_error(horizon, max_episode_timesteps) ==
    IF horizon = 0 /\ max_episode_timesteps = 0 THEN "required" ELSE "none"

\* the constructor up to the construction of the base class and the model
AgentConstruct ==
    /\ ~construct_args.called
    /\ \E parallel_interactions \in 1 .. 2,
          update \in UpdateArguments,
          configured \in 0 .. MaxBatchSize + 1,
          max_episode_timesteps \in 0 .. MaxBatchSize,
          horizon \in 0 .. 1 :
          LET rule == buffer_observe_rule(parallel_interactions,
                                          update_spec(update), configured,
                                          max_episode_timesteps)
          IN  /\ construct_args' = [called |-> TRUE,
                                    parallel_interactions |-> parallel_interactions,
                                    update |-> update,
                                    buffer_observe |-> configured,
                                    max_episode_timesteps |-> max_episode_timesteps,
                                    horizon |-> horizon]
              /\ buffer_observe' = rule.buffer_observe
              /\ construct_error' = IF rule.error # "none" THEN rule.error
                                    ELSE horizon_error(horizon,
                                                       max_episode_timesteps)
    /\ UNCHANGED <<experience_size, buffer_indices, callVars, pretrainVars>>
    /\ UNCHANGED solverVars

ConstructNext == AgentConstruct

ConstructSpec == Init /\ [][ConstructNext]_vars

(***************************************************************************)
(* Helpers: the experience call that was made.                             *)
(***************************************************************************)
\* experience was called and returned normally
Returned == experience_input.called /\ agent_error = NoError

\* experience was called and raised an error
Raised == experience_input.called /\ agent_error # NoError

\* the terminal flag of timestep i (counted from 0) of the call
Terminal(i) == IF experience_input.terminal[i + 1] THEN 1 ELSE 0

NumTimesteps == Len(experience_input.terminal)

\* timestep i is part of the k-th batch passed to the model
InBatch(k, i) == passed[k].last <= i /\ i < passed[k].index

BatchLen(k) == passed[k].index - passed[k].last

\* the counters of the agent are those it had when experience was called
CountersUnchanged ==
    /\ timesteps = counters_before.timesteps
    /\ episodes = counters_before.episodes
    /\ updates = counters_before.updates

(***************************************************************************)
(* C14: after experience returns normally every input timestep 0 ..        *)
(* len(terminal) - 1 has been passed to model.experience in exactly one    *)
(* batch, the batches being consecutive, non-overlapping slices in         *)
(* increasing order that start at index 0.                                 *)
(***************************************************************************)
C14_BatchesCoverInput ==
    Returned =>
        /\ \A i \in 0 .. NumTimesteps - 1 :
              Cardinality({k \in DOMAIN passed : InBatch(k, i)}) = 1
        /\ passed # <<>> => passed[1].last = 0
        /\ \A k \in 1 .. Len(passed) - 1 : passed[k + 1].last = passed[k].index

(***************************************************************************)
(* C15: for terminal = [0,0,1,0,0,0] and experience_size = 4 experience    *)
(* passes exactly the two slices [0:3] and [3:6], in that order.           *)
(***************************************************************************)
C15_ExampleBatches ==
    (/\ Returned
     /\ experience_input.terminal = <<FALSE, FALSE, TRUE, FALSE, FALSE, FALSE>>
     /\ experience_size = 4)
    => passed = <<[last |-> 0, index |-> 3], [last |-> 3, index |-> 6]>>

(***************************************************************************)
(* C16: every batch passed to model.experience holds at least one and at   *)
(* most experience_size timesteps, for every terminal sequence.            *)
(***************************************************************************)
C16_BatchSizes ==
    experience_input.called =>
        \A k \in DOMAIN passed :
            /\ 0 <= passed[k].last
            /\ passed[k].index <= NumTimesteps
            /\ 1 <= BatchLen(k)
            /\ BatchLen(k) <= experience_size

\* a batch closed at the capacity, without a terminal, and a batch of one
C16_Witness ==
    /\ Returned
    /\ experience_size >= 2
    /\ \E k \in DOMAIN passed :
          /\ BatchLen(k) = experience_size
          /\ \A i \in 0 .. NumTimesteps - 1 : InBatch(k, i) => Terminal(i) = 0
    /\ \E k \in DOMAIN passed : BatchLen(k) = 1

(***************************************************************************)
(* C17: every batch passed to model.experience holds at most one timestep  *)
(* with a non-zero terminal flag, and such a timestep is the last one of   *)
(* its batch.                                                              *)
(***************************************************************************)
C17_EpisodeBoundaries ==
    experience_input.called =>
        \A k \in DOMAIN passed :
            /\ \A i \in 0 .. NumTimesteps - 1 :
                  (InBatch(k, i) /\ Terminal(i) # 0) => i = passed[k].index - 1
            /\ Cardinality({i \in 0 .. NumTimesteps - 1 :
                               InBatch(k, i) /\ Terminal(i) # 0}) <= 1

\* two episodes ending within the capacity were passed as two batches
C17_Witness ==
    /\ Returned
    /\ Len(passed) >= 2
    /\ \E k \in 1 .. Len(passed) - 1 :
          /\ BatchLen(k) >= 2
          /\ BatchLen(k) < experience_size
          /\ Terminal(passed[k].index - 1) # 0
          /\ BatchLen(k + 1) >= 2
          /\ Terminal(passed[k + 1].index - 1) # 0

C19_MidEpisodeRejected ==
    experience_input.called =>
        IF \E p \in Slots : buffer_indices[p] # 0
        THEN /\ agent_error.kind = "TensorforceError"
             /\ agent_error.argument = "mid-episode"
             /\ passed = <<>>
             /\ model_counters = NoCounters
             /\ CountersUnchanged
        ELSE agent_error.argument # "mid-episode"

\* the call was made with the second slot mid-episode and mismatched lengths
C19_Witness ==
    /\ Raised
    /\ buffer_indices[1] = 0
    /\ buffer_indices[2] # 0
    /\ experience_input.reward_len # experience_input.num_instances
    /\ agent_error.argument = "mid-episode"

(***************************************************************************)
(* C20: if the leading length of an internals entry, an actions entry,     *)
(* terminal or reward differs from the number of states, experience fails  *)
(* with a value error that names an offending field, before any batch is   *)
(* passed to model.experience and with the counters unchanged (the call    *)
(* being made with all buffer indices zero).                               *)
(***************************************************************************)
C20_LengthMismatchRejected ==
    (experience_input.called /\ \A p \in Slots : buffer_indices[p] = 0) =>
        LET n == experience_input.num_instances
            internals == experience_input.internals
            actions == experience_input.actions
            offending ==
                {<<"len(internals[name])", i>> : i \in
                    {j \in DOMAIN internals : internals[j] # n}}
                \cup {<<"len(actions[name])", i>> : i \in
                    {j \in DOMAIN actions : actions[j] # n}}
                \cup (IF NumTimesteps # n THEN {<<"len(terminal)", 0>>} ELSE {})
                \cup (IF experience_input.reward_len # n
                      THEN {<<"len(reward)", 0>>} ELSE {})
        IN  IF offending # {}
            THEN /\ agent_error.kind = "value"
                 /\ <<agent_error.argument, agent_error.name>> \in offending
                 /\ passed = <<>>
                 /\ model_counters = NoCounters
                 /\ CountersUnchanged
            ELSE agent_error = NoError

\* only the length of reward was wrong and the error names it
C20_Witness ==
    /\ Raised
    /\ \A p \in Slots : buffer_indices[p] = 0
    /\ experience_input.internals = <<experience_input.num_instances>>
    /\ experience_input.actions = <<experience_input.num_instances>>
    /\ NumTimesteps = experience_input.num_instances
    /\ NumTimesteps >= 2
    /\ experience_input.reward_len # experience_input.num_instances
    /\ agent_error = [kind |-> "value", argument |-> "len(reward)", name |-> 0]

(***************************************************************************)
(* C29: the batch boundaries of experience are exactly those of the rule   *)
(* "close the open batch after timestep i iff terminal[i] != 0 or the open *)
(* batch has reached experience_size timesteps": the branch "include       *)
(* terminal in batch if possible" changes no boundary, for any terminal    *)
(* sequence and any experience_size, and a trailing run that neither ends  *)
(* in a terminal nor reaches experience_size is never closed.              *)
(***************************************************************************)
\* the slices of the reference rule, scanning timesteps i .. NumTimesteps - 1
\* with the open batch starting at timestep open
RECURSIVE ReferenceBatches(_, _)
ReferenceBatches(i, open) ==
    IF i >= NumTimesteps THEN <<>>
    ELSE IF Terminal(i) # 0 \/ i + 1 - open = experience_size
    THEN <<[last |-> open, index |-> i + 1]>> \o ReferenceBatches(i + 1, i + 1)
    ELSE ReferenceBatches(i + 1, open)

\* the first timestep that was passed in no batch
Covered == IF passed = <<>> THEN 0 ELSE passed[Len(passed)].index

C29_ReferenceRule ==
    Returned =>
        /\ passed = ReferenceBatches(0, 0)
        /\ \A k \in DOMAIN passed :
              \/ Terminal(passed[k].index - 1) # 0
              \/ BatchLen(k) = experience_size
        /\ Covered < NumTimesteps =>
              /\ Terminal(NumTimesteps - 1) = 0
              /\ NumTimesteps - Covered < experience_size

\* batches closed by a terminal and by the capacity, and a trailing run of
\* two timesteps that was not passed
C29_Witness ==
    /\ Returned
    /\ \E k \in DOMAIN passed :
          Terminal(passed[k].index - 1) # 0 /\ BatchLen(k) < experience_size
    /\ \E k \in DOMAIN passed :
          Terminal(passed[k].index - 1) = 0 /\ BatchLen(k) = experience_size
    /\ NumTimesteps - Covered = 2

(***************************************************************************)
(* Helpers: the log of agent operations and of the model calls they make.  *)
(***************************************************************************)
Counters == [timesteps |-> timesteps, episodes |-> episodes, updates |-> updates]

\* the model calls made by the k-th agent operation
CallsOf(k) == {j \in DOMAIN model_calls : model_calls[j].operation = k}

LastOperation == operations[Len(operations)]

\* the agent operation ran to its end without raising
Completed ==
    /\ operations # <<>>
    /\ LastOperation = "experience" => agent_error = NoError

\* C21: after experience() the agent's counters are the triple returned by
\* the last model.experience call of that operation, one call per finalized
\* batch, and are unchanged when no batch was finalized; after update() they
\* are the triple returned by its single model.update call.
C21_CountersFollowModel ==
    Completed =>
        LET mine == CallsOf(Len(operations)) IN
        /\ \A j \in mine : model_calls[j].call = LastOperation
        /\ \A j \in mine : \A k \in DOMAIN model_calls : k > j => k \in mine
        /\ LastOperation = "experience" =>
              /\ Cardinality(mine) = Len(passed)
              /\ Counters = IF mine = {} THEN counters_before
                            ELSE model_calls[Len(model_calls)].returned
        /\ LastOperation = "update" =>
              /\ Cardinality(mine) = 1
              /\ Counters = model_calls[Len(model_calls)].returned

\* an experience() that finalized two batches whose returned triples differ
C21_Witness ==
    /\ Completed
    /\ LastOperation = "experience"
    /\ Len(passed) = 2
    /\ model_calls[Len(model_calls)].returned # model_calls[Len(model_calls) - 1].returned
    /\ Counters = model_calls[Len(model_calls)].returned
    /\ counters_before.updates > 0

\* C25: pretrain runs, per iteration, one experience() on the batch and then
\* num_updates update() calls; no update precedes the model.experience calls
\* of its iteration, and a finished pretrain made num_iterations *
\* num_updates updates.
C25_PretrainOrder ==
    (pretrain_args.called /\ pretrain_pc \in {"iterating", "updating", "done"}) =>
        LET m == pretrain_args.num_updates
            n == pretrain_args.num_iterations
            updateCalls == {j \in DOMAIN model_calls : model_calls[j].call = "update"}
        IN  /\ \A k \in DOMAIN operations :
                  operations[k] = IF (k - 1) % (m + 1) = 0 THEN "experience"
                                  ELSE "update"
            /\ Len(operations) = iteration * (m + 1)
                                 + IF pretrain_pc = "updating"
                                   THEN 1 + updates_done ELSE 0
            /\ \A a, b \in DOMAIN model_calls :
                  a < b => model_calls[a].operation <= model_calls[b].operation
            /\ \A j \in DOMAIN model_calls :
                  model_calls[j].call = operations[model_calls[j].operation]
            /\ \A k \in DOMAIN operations :
                  operations[k] = "update" => Cardinality(CallsOf(k)) = 1
            /\ pretrain_pc = "updating" => updates_done < m
            /\ pretrain_pc = "done" =>
                  /\ iteration = n
                  /\ Cardinality(updateCalls) = n * m
                  /\ updates = n * m

\* a finished pretrain of two iterations with two updates each, whose last
\* experience() passed two batches to the model
C25_Witness ==
    /\ pretrain_args.called
    /\ pretrain_pc = "done"
    /\ pretrain_args.num_iterations = 2
    /\ pretrain_args.num_updates = 2
    /\ Len(operations) = 6
    /\ Len(passed) = 2
    /\ Cardinality({j \in DOMAIN model_calls : model_calls[j].call = "update"}) = 4

(***************************************************************************)
(* Helpers: the constructor call that was made.                            *)
(***************************************************************************)
\* one interaction and an int update argument or an update specification
\* of unit 'timesteps' with an integer batch size
TimestepsCase ==
    /\ construct_args.called
    /\ construct_args.parallel_interactions = 1
    /\ \/ construct_args.update.form = "int"
       \/ construct_args.update.unit = "timesteps"
    /\ construct_args.update.batch_size # 0

=============================================================================
